---- MODULE Spec2Model ----
(***************************************************************************)
(* Model of the translation orchestrator (SmartTranslator) and of the      *)
(* API-key resolution of ConfigManager.                                    *)
(*                                                                         *)
(* Texts are sequences of one-character strings, so that strip, split and  *)
(* join are computed the way Python computes them.                         *)
(***************************************************************************)
EXTENDS Integers, Sequences, FiniteSets, TLC

\* ------------------------------------------------------------------ bounds
MaxChunks == 2      \* longest chunk list the chunker returns in Spec
MaxCodeLen == 3     \* longest code block (characters) in SpecCode
MaxMergeChunks == 2 \* longest list of translated chunks in SpecMerge
MaxTextLen == 4     \* longest translated chunk (characters) in SpecMerge

\* ------------------------------------------------------- text primitives
NL == "\n"
TAB == "\t"
SP == " "

\* str.strip() without arguments removes leading/trailing whitespace
Whitespace == {SP, TAB, NL}

RECURSIVE LStrip(_)
LStrip(s) ==
    IF s # <<>> /\ Head(s) \in Whitespace THEN LStrip(Tail(s)) ELSE s

RECURSIVE RStrip(_)
RStrip(s) ==
    IF s # <<>> /\ s[Len(s)] \in Whitespace
    THEN RStrip(SubSeq(s, 1, Len(s) - 1))
    ELSE s

Strip(s) == RStrip(LStrip(s))

StartsWith(s, p) == Len(s) >= Len(p) /\ SubSeq(s, 1, Len(p)) = p

\* str.split(sep) for a non-empty separator: always at least one piece
RECURSIVE SplitAcc(_, _, _)
SplitAcc(s, sep, cur) ==
    IF s = <<>> THEN <<cur>>
    ELSE IF StartsWith(s, sep)
         THEN <<cur>> \o SplitAcc(SubSeq(s, Len(sep) + 1, Len(s)), sep, <<>>)
         ELSE SplitAcc(Tail(s), sep, Append(cur, Head(s)))

Split(s, sep) == SplitAcc(s, sep, <<>>)

\* sep.join(parts)
RECURSIVE Join(_, _)
Join(parts, sep) ==
    IF parts = <<>> THEN <<>>
    ELSE IF Len(parts) = 1 THEN parts[1]
    ELSE parts[1] \o sep \o Join(Tail(parts), sep)

\* ' ' * n
RECURSIVE Spaces(_)
Spaces(n) == IF n <= 0 THEN <<>> ELSE <<SP>> \o Spaces(n - 1)

RECURSIVE SeqsUpTo(_, _)
SeqsUpTo(S, n) ==
    IF n = 0 THEN {<<>>}
    ELSE LET shorter == SeqsUpTo(S, n - 1)
         IN  shorter \cup {Append(s, c) : s \in {t \in shorter : Len(t) = n - 1}, c \in S}

\* ------------------------------------------------------------ model call
\* One invocation of a chain (prompt | llm | parser): it either raises or
\* the model answers with a raw text that the output parser then strips.
NoCall == [called |-> FALSE, ok |-> TRUE, text |-> <<>>]
Raised == [called |-> TRUE, ok |-> FALSE, text |-> <<>>]
Answer(t) == [called |-> TRUE, ok |-> TRUE, text |-> t]

RawAnswers == {<<"Y">>, <<SP, "Y">>, <<SP>>}
LLMOutcomes == {Raised} \cup {Answer(t) : t \in RawAnswers}

parse(text) == Strip(text)


\* ------------------------------------------------------ SmartTranslator
\* f"翻译失败: {chunk.content}"
\* (the four marker characters are written in pinyin, one token each)
FailPrefix == <<"fan", "yi", "shi", "bai", ":", SP>>

\* mutant: the prefix is tested on the line as it is, not on line.strip()
IsCommentLine_NoStrip(line) ==
    StartsWith(line, <<"#">>) \/ StartsWith(line, <<"/", "/">>)

IsCommentLine(line) ==
    StartsWith(Strip(line), <<"#">>) \/ StartsWith(Strip(line), <<"/", "/">>)

\* one iteration of the line loop of _translate_code_block: the line that is
\* appended to translated_lines, given the outcome of the model call
TranslateLine(line, outcome) ==
    IF IsCommentLine(line)
    THEN IF outcome.ok
         THEN LET indent == Len(line) - Len(LStrip(line))
              IN  Spaces(indent) \o parse(outcome.text)
         ELSE line
    ELSE line

\* translated_lines after the loop; outcomes[j] is the outcome of the model
\* call made for line j (used for comment lines only)
TranslatedLines(code_content, outcomes) ==
    LET lines == Split(code_content, <<NL>>)
    IN  [j \in 1..Len(lines) |-> TranslateLine(lines[j], outcomes[j])]

\* the texts handed to translation_chain.invoke by the loop, in call order
RECURSIVE SentOf(_)
SentOf(lines) ==
    IF lines = <<>> THEN <<>>
    ELSE (IF IsCommentLine(Head(lines)) THEN <<Strip(Head(lines))>> ELSE <<>>)
         \o SentOf(Tail(lines))

SentLines(code_content) == SentOf(Split(code_content, <<NL>>))

_translate_code_block(code_content, outcomes) ==
    Join(TranslatedLines(code_content, outcomes), <<NL>>)

\* the outcome sequences the model can produce for a code block: one call
\* per comment line, none for the other lines
CodeOutcomes(code_content) ==
    LET lines == Split(code_content, <<NL>>)
    IN  {o \in [1..Len(lines) -> LLMOutcomes \cup {NoCall}] :
            \A j \in 1..Len(lines) : o[j].called <=> IsCommentLine(lines[j])}

ChunkOutcomes(chunk) ==
    IF chunk.chunk_type = "code"
    THEN CodeOutcomes(chunk.content)
    ELSE {<<o>> : o \in LLMOutcomes}

\* mutant: the failure marker without the chunk's source
translate_chunk_NoSource(chunk, outcomes) ==
    IF chunk.chunk_type = "code"
    THEN _translate_code_block(chunk.content, outcomes)
    ELSE IF outcomes[1].ok
         THEN parse(outcomes[1].text)
         ELSE FailPrefix

translate_chunk(chunk, outcomes) ==
    IF chunk.chunk_type = "code"
    THEN _translate_code_block(chunk.content, outcomes)
    ELSE IF outcomes[1].ok
         THEN parse(outcomes[1].text)
         ELSE FailPrefix \o chunk.content

NonBlank(c) == Strip(c) # <<>>

\* mutant: the "if chunk.strip()" filter is missing
_merge_translated_chunks_NoFilter(tc) ==
    Join([k \in 1..Len(tc) |-> Strip(tc[k])], <<NL, NL>>)

_merge_translated_chunks(tc) ==
    LET kept == SelectSeq(tc, NonBlank)
    IN  Join([k \in 1..Len(kept) |-> Strip(kept[k])], <<NL, NL>>)

\* the sentinel "无" of missing_content, written in pinyin
WU == "wu"

\* mutant: "or" in place of "and"
NeedsRetranslation_Or(cmp) ==
    cmp.completeness_score < 8 \/ cmp.missing_content # WU

\* if completeness_score < 8 and missing_content != "无"
NeedsRetranslation(cmp) ==
    cmp.completeness_score < 8 /\ cmp.missing_content # WU

\* mutant: "is not None" in place of the truth test
Truthy_NotNone(outcome) == outcome.ok

\* mutant: the result is used without any test
Truthy_Always(outcome) == outcome.called

\* if retranslated_content:   (None and '' are both falsy)
Truthy(outcome) == outcome.ok /\ parse(outcome.text) # <<>>

\* --------------------------------------------------------- collaborators
\* MarkdownChunker.chunk_text: an ordered list of TextChunk, empty for an
\* empty document
ChunkPool ==
    { [content |-> <<"a">>, chunk_type |-> "paragraph"],
      [content |-> <<"b">>, chunk_type |-> "heading"],
      [content |-> <<"x", NL, SP, "#">>, chunk_type |-> "code"] }

ChunkLists == SeqsUpTo(ChunkPool, MaxChunks)

\* SummaryGenerator.generate_*_summary: some summary text
Summaries == {"S1", "S2"}

\* SummaryGenerator.compare_summaries: a score in 0..10 around the threshold
\* and a missing_content that is the sentinel or names something
Scores == {0, 7, 8, 10}
Comparisons ==
    [completeness_score : Scores, missing_content : {WU, "missing"}]

NoComparison == [completeness_score |-> 0, missing_content |-> WU]
NoStats ==
    [original_summary |-> "", translated_summary |-> "",
     comparison_result |-> NoComparison, chunk_count |-> 0,
     completeness_score |-> 0]

\* ---------------------------------------------------------- ConfigManager
\* Python's None, kept apart from every string the program handles
None == "<None>"

\* not x, for x a string or None
Falsy(x) == x = None \/ x = ""

OpenaiPlaceholder == "your_openai_api_key_here"
QwenPlaceholder == "your_dashscope_api_key_here"
DefaultBaseUrl == "https://api.openai.com/v1"

\* a section of config.ini; an option that is not set reads as None here
NoSection == [present |-> FALSE, api_key |-> None, base_url |-> None]

\* os.getenv(name, default)
getenv(env, name, default) == IF env[name] = None THEN default ELSE env[name]

\* mutant: the config file is consulted even when an api_key was passed
get_openai_config_FileFirst(file, env, api_key, base_url) ==
    LET sec == file.openai
        k1 == IF sec.present
              THEN IF sec.api_key = OpenaiPlaceholder THEN None ELSE sec.api_key
              ELSE api_key
        u1 == IF Falsy(base_url) /\ sec.present
              THEN IF sec.base_url = None THEN DefaultBaseUrl ELSE sec.base_url
              ELSE base_url
    IN  [api_key |-> IF Falsy(k1) THEN getenv(env, "OPENAI_API_KEY", None) ELSE k1,
         base_url |-> IF Falsy(u1) THEN getenv(env, "OPENAI_BASE_URL", DefaultBaseUrl) ELSE u1,
         read |-> (IF Falsy(k1) THEN {"OPENAI_API_KEY"} ELSE {})
                  \cup (IF Falsy(u1) THEN {"OPENAI_BASE_URL"} ELSE {})]

\* the returned config, and the environment variables read on the way
get_openai_config(file, env, api_key, base_url) ==
    LET sec == file.openai
        k1 == IF Falsy(api_key) /\ sec.present
              THEN IF sec.api_key = OpenaiPlaceholder THEN None ELSE sec.api_key
              ELSE api_key
        u1 == IF Falsy(base_url) /\ sec.present
              THEN IF sec.base_url = None THEN DefaultBaseUrl ELSE sec.base_url
              ELSE base_url
    IN  [api_key |-> IF Falsy(k1) THEN getenv(env, "OPENAI_API_KEY", None) ELSE k1,
         base_url |-> IF Falsy(u1) THEN getenv(env, "OPENAI_BASE_URL", DefaultBaseUrl) ELSE u1,
         read |-> (IF Falsy(k1) THEN {"OPENAI_API_KEY"} ELSE {})
                  \cup (IF Falsy(u1) THEN {"OPENAI_BASE_URL"} ELSE {})]

get_qwen_config(file, env, api_key) ==
    LET sec == file.qwen
        k1 == IF Falsy(api_key) /\ sec.present
              THEN IF sec.api_key = QwenPlaceholder THEN None ELSE sec.api_key
              ELSE api_key
    IN  [api_key |-> IF Falsy(k1) THEN getenv(env, "DASHSCOPE_API_KEY", None) ELSE k1,
         read |-> IF Falsy(k1) THEN {"DASHSCOPE_API_KEY"} ELSE {}]

\* ------------------------------------------------------------------ state
VARIABLES
    pc,                  \* position inside translate_content
    original_summary, chunks, translated_chunks, translated_content,
    translated_summary, comparison_result,
    result_text, stats,  \* the returned tuple
    phases,              \* phases entered so far, in order
    llm_log,             \* per translated chunk: outcomes of its model calls
    retranslation,       \* outcome of the focused-retranslation call
    merged_content,      \* value of _merge_translated_chunks
    first_summary, first_comparison,
    nRetranslate, nSummarizeTranslated, nCompare,   \* calls made so far
    code_pc, code_content, code_outcomes, translated_lines, code_sent,
    code_result,         \* one call of _translate_code_block
    merge_pc, merge_chunks, merge_result,  \* one call of the merge
    cfg_pc, cfg_file, cfg_env,             \* config.ini and os.environ
    cfg_call, cfg_result, env_read         \* one call of get_*_config

tvars == <<pc, original_summary, chunks, translated_chunks,
           translated_content, translated_summary, comparison_result,
           result_text, stats, phases, llm_log, retranslation,
           merged_content, first_summary, first_comparison,
           nRetranslate, nSummarizeTranslated, nCompare>>
cvars == <<code_pc, code_content, code_outcomes, translated_lines,
           code_sent, code_result>>
mvars == <<merge_pc, merge_chunks, merge_result>>
kvars == <<cfg_pc, cfg_file, cfg_env, cfg_call, cfg_result, env_read>>
vars == <<tvars, cvars, mvars, kvars>>

TInit ==
    /\ pc = "start"
    /\ original_summary = ""
    /\ chunks = <<>>
    /\ translated_chunks = <<>>
    /\ translated_content = <<>>
    /\ translated_summary = ""
    /\ comparison_result = NoComparison
    /\ result_text = <<>>
    /\ stats = NoStats
    /\ phases = <<>>
    /\ llm_log = <<>>
    /\ retranslation = NoCall
    /\ merged_content = <<>>
    /\ first_summary = ""
    /\ first_comparison = NoComparison
    /\ nRetranslate = 0
    /\ nSummarizeTranslated = 0
    /\ nCompare = 0

CIdle ==
    /\ code_pc = "idle"
    /\ code_content = <<>>
    /\ code_outcomes = <<>>
    /\ translated_lines = <<>>
    /\ code_sent = <<>>
    /\ code_result = <<>>

MIdle ==
    /\ merge_pc = "idle"
    /\ merge_chunks = <<>>
    /\ merge_result = <<>>

KIdle ==
    /\ cfg_pc = "idle"
    /\ cfg_file = [openai |-> NoSection, qwen |-> NoSection]
    /\ cfg_env = [OPENAI_API_KEY |-> None, OPENAI_BASE_URL |-> None,
                  DASHSCOPE_API_KEY |-> None]
    /\ cfg_call = [method |-> "", api_key |-> None, base_url |-> None]
    /\ cfg_result = [api_key |-> None, base_url |-> None]
    /\ env_read = {}

Init == TInit /\ CIdle /\ MIdle /\ KIdle

\* ---------------------------------------------------- translate_content
\* original_summary = self.summary_generator.generate_original_summary(content)
GenerateOriginalSummary ==
    /\ pc = "start"
    /\ \E s \in Summaries : original_summary' = s
    /\ phases' = Append(phases, "SUMMARIZING_ORIGINAL")
    /\ pc' = "chunking"
    /\ UNCHANGED <<chunks, translated_chunks, translated_content,
                   translated_summary, comparison_result, result_text, stats,
                   llm_log, retranslation, merged_content, first_summary,
                   first_comparison, nRetranslate, nSummarizeTranslated,
                   nCompare>>

\* chunks = self.chunker.chunk_text(content); translated_chunks = []
ChunkText ==
    /\ pc = "chunking"
    /\ \E cs \in ChunkLists : chunks' = cs
    /\ translated_chunks' = <<>>
    /\ phases' = Append(phases, "CHUNKING")
    /\ pc' = "translating"
    /\ UNCHANGED <<original_summary, translated_content, translated_summary,
                   comparison_result, result_text, stats, llm_log,
                   retranslation, merged_content, first_summary,
                   first_comparison, nRetranslate, nSummarizeTranslated,
                   nCompare>>

\* mutant: the result is inserted at the front of translated_chunks
TranslateChunk_Prepend ==
    /\ pc = "translating"
    /\ Len(translated_chunks) < Len(chunks)
    /\ LET chunk == chunks[Len(translated_chunks) + 1]
       IN  \E outcomes \in ChunkOutcomes(chunk) :
              /\ translated_chunks' =
                     <<translate_chunk(chunk, outcomes)>> \o translated_chunks
              /\ llm_log' = Append(llm_log, outcomes)
    /\ phases' = IF phases[Len(phases)] = "TRANSLATING"
                 THEN phases ELSE Append(phases, "TRANSLATING")
    /\ UNCHANGED <<pc, original_summary, chunks, translated_content,
                   translated_summary, comparison_result, result_text, stats,
                   retranslation, merged_content, first_summary,
                   first_comparison, nRetranslate, nSummarizeTranslated,
                   nCompare>>

\* one iteration of: for i, chunk in enumerate(chunks)
TranslateChunk ==
    /\ pc = "translating"
    /\ Len(translated_chunks) < Len(chunks)
    /\ LET chunk == chunks[Len(translated_chunks) + 1]
       IN  \E outcomes \in ChunkOutcomes(chunk) :
              /\ translated_chunks' =
                     Append(translated_chunks, translate_chunk(chunk, outcomes))
              /\ llm_log' = Append(llm_log, outcomes)
    /\ phases' = IF phases[Len(phases)] = "TRANSLATING"
                 THEN phases ELSE Append(phases, "TRANSLATING")
    /\ UNCHANGED <<pc, original_summary, chunks, translated_content,
                   translated_summary, comparison_result, result_text, stats,
                   retranslation, merged_content, first_summary,
                   first_comparison, nRetranslate, nSummarizeTranslated,
                   nCompare>>

\* mutant: the comparison is made without summarizing the translation
MergeTranslatedChunks_SkipSummary ==
    /\ pc = "translating"
    /\ Len(translated_chunks) = Len(chunks)
    /\ translated_content' = _merge_translated_chunks(translated_chunks)
    /\ merged_content' = translated_content'
    /\ pc' = "comparing"
    /\ UNCHANGED <<original_summary, chunks, translated_chunks,
                   translated_summary, comparison_result, result_text, stats,
                   phases, llm_log, retranslation, first_summary,
                   first_comparison, nRetranslate, nSummarizeTranslated,
                   nCompare>>

\* loop exit; translated_content = self._merge_translated_chunks(...)
MergeTranslatedChunks ==
    /\ pc = "translating"
    /\ Len(translated_chunks) = Len(chunks)
    /\ translated_content' = _merge_translated_chunks(translated_chunks)
    /\ merged_content' = translated_content'
    /\ pc' = "summarizing_translated"
    /\ UNCHANGED <<original_summary, chunks, translated_chunks,
                   translated_summary, comparison_result, result_text, stats,
                   phases, llm_log, retranslation, first_summary,
                   first_comparison, nRetranslate, nSummarizeTranslated,
                   nCompare>>

\* translated_summary = ...generate_translated_summary(translated_content)
GenerateTranslatedSummary ==
    /\ pc = "summarizing_translated"
    /\ \E s \in Summaries : translated_summary' = s
    /\ first_summary' = translated_summary'
    /\ nSummarizeTranslated' = nSummarizeTranslated + 1
    /\ phases' = Append(phases, "SUMMARIZING_TRANSLATED")
    /\ pc' = "comparing"
    /\ UNCHANGED <<original_summary, chunks, translated_chunks,
                   translated_content, comparison_result, result_text, stats,
                   llm_log, retranslation, merged_content, first_comparison,
                   nRetranslate, nCompare>>

\* comparison_result = ...compare_summaries(...); then the test of line 177
CompareSummaries ==
    /\ pc = "comparing"
    /\ \E c \in Comparisons : comparison_result' = c
    /\ first_comparison' = comparison_result'
    /\ nCompare' = nCompare + 1
    /\ phases' = Append(phases, "COMPARING")
    /\ pc' = IF NeedsRetranslation(comparison_result')
             THEN "retranslating" ELSE "return"
    /\ UNCHANGED <<original_summary, chunks, translated_chunks,
                   translated_content, translated_summary, result_text, stats,
                   llm_log, retranslation, merged_content, first_summary,
                   nRetranslate, nSummarizeTranslated>>

\* retranslated_content = self._retranslate_with_focus(...); the call
\* returns the parsed answer, or None when the chain raised
RetranslateWithFocus ==
    /\ pc = "retranslating"
    /\ \E o \in LLMOutcomes : retranslation' = o
    /\ nRetranslate' = nRetranslate + 1
    /\ phases' = Append(phases, "RETRANSLATING_FOCUSED")
    /\ IF Truthy(retranslation')
       THEN /\ translated_content' = parse(retranslation'.text)
            /\ pc' = "resummarizing"
       ELSE /\ UNCHANGED translated_content
            /\ pc' = "return"
    /\ UNCHANGED <<original_summary, chunks, translated_chunks,
                   translated_summary, comparison_result, result_text, stats,
                   llm_log, merged_content, first_summary, first_comparison,
                   nSummarizeTranslated, nCompare>>

ResummarizeTranslated ==
    /\ pc = "resummarizing"
    /\ \E s \in Summaries : translated_summary' = s
    /\ nSummarizeTranslated' = nSummarizeTranslated + 1
    /\ phases' = Append(phases, "RESUMMARIZING")
    /\ pc' = "recomparing"
    /\ UNCHANGED <<original_summary, chunks, translated_chunks,
                   translated_content, comparison_result, result_text, stats,
                   llm_log, retranslation, merged_content, first_summary,
                   first_comparison, nRetranslate, nCompare>>

RecompareSummaries ==
    /\ pc = "recomparing"
    /\ \E c \in Comparisons : comparison_result' = c
    /\ nCompare' = nCompare + 1
    /\ phases' = Append(phases, "RECOMPARING")
    /\ pc' = "return"
    /\ UNCHANGED <<original_summary, chunks, translated_chunks,
                   translated_content, translated_summary, result_text, stats,
                   llm_log, retranslation, merged_content, first_summary,
                   first_comparison, nRetranslate, nSummarizeTranslated>>

\* mutant: the score of the first comparison is reported
Return_StaleScore ==
    /\ pc = "return"
    /\ stats' = [original_summary |-> original_summary,
                 translated_summary |-> translated_summary,
                 comparison_result |-> comparison_result,
                 chunk_count |-> Len(chunks),
                 completeness_score |-> first_comparison.completeness_score]
    /\ result_text' = translated_content
    /\ phases' = Append(phases, "DONE")
    /\ pc' = "done"
    /\ UNCHANGED <<original_summary, chunks, translated_chunks,
                   translated_content, translated_summary, comparison_result,
                   llm_log, retranslation, merged_content, first_summary,
                   first_comparison, nRetranslate, nSummarizeTranslated,
                   nCompare>>

\* stats = {...}; return translated_content, stats
Return ==
    /\ pc = "return"
    /\ stats' = [original_summary |-> original_summary,
                 translated_summary |-> translated_summary,
                 comparison_result |-> comparison_result,
                 chunk_count |-> Len(chunks),
                 completeness_score |-> comparison_result.completeness_score]
    /\ result_text' = translated_content
    /\ phases' = Append(phases, "DONE")
    /\ pc' = "done"
    /\ UNCHANGED <<original_summary, chunks, translated_chunks,
                   translated_content, translated_summary, comparison_result,
                   llm_log, retranslation, merged_content, first_summary,
                   first_comparison, nRetranslate, nSummarizeTranslated,
                   nCompare>>

translate_content ==
    \/ GenerateOriginalSummary
    \/ ChunkText
    \/ TranslateChunk
    \/ MergeTranslatedChunks
    \/ GenerateTranslatedSummary
    \/ CompareSummaries
    \/ RetranslateWithFocus
    \/ ResummarizeTranslated
    \/ RecompareSummaries
    \/ Return

Next == translate_content /\ UNCHANGED <<cvars, mvars, kvars>>

Spec == Init /\ [][Next]_vars

\* every step of translate_content is a blocking call that returns
FairSpec == Spec /\ WF_vars(Next)

\* =================================================================
\* Properties of translate_content (checked under Spec / FairSpec)
\* =================================================================

\* C1: the focused retranslation (_retranslate_with_focus) is called exactly
\* once when the first comparison has completeness_score < 8 and a
\* missing_content other than the sentinel, and not at all otherwise; it
\* is never called more than once, whatever the recomputed comparison says.
C1_Theorem ==
    /\ nRetranslate <= 1
    /\ pc \in {"return", "done"} =>
          nRetranslate =
             IF /\ first_comparison.completeness_score < 8
                /\ first_comparison.missing_content # WU
             THEN 1 ELSE 0

\* a run whose recomputed comparison is again low and names missing content
C1_Witness ==
    /\ pc = "done"
    /\ nRetranslate = 1
    /\ nCompare = 2
    /\ comparison_result.completeness_score < 8
    /\ comparison_result.missing_content # WU

\* C2 (as stated): whenever the focused-retranslation call returns, whatever
\* text it returns, that text is the returned translation and the translated
\* summary and the comparison have each been computed a second time.
C2_Original ==
    (pc = "done" /\ retranslation.called /\ retranslation.ok) =>
        /\ result_text = parse(retranslation.text)
        /\ nSummarizeTranslated = 2
        /\ nCompare = 2

\* C2 (amended): when the focused-retranslation call returns a text that is
\* non-empty after stripping, that text is the returned translation and the
\* translated summary and the comparison are each recomputed exactly once;
\* when it returns an empty or whitespace-only text, the merged chunk
\* translation is returned and nothing is recomputed.
C2_Theorem ==
    (pc = "done" /\ retranslation.called /\ retranslation.ok) =>
        IF Strip(retranslation.text) # <<>>
        THEN /\ result_text = Strip(retranslation.text)
             /\ nSummarizeTranslated = 2
             /\ nCompare = 2
        ELSE /\ result_text = merged_content
             /\ nSummarizeTranslated = 1
             /\ nCompare = 1

C2_Witness ==
    /\ pc = "done"
    /\ retranslation.called /\ retranslation.ok
    /\ Strip(retranslation.text) # <<>>
    /\ result_text # merged_content
    /\ nSummarizeTranslated = 2

\* C3: when the focused-retranslation call raises, translate_content still
\* returns: the translation is the merged chunk translation and the returned
\* summary, comparison and score are those of the first pass, no second
\* summary or comparison having been made.
C3_Theorem ==
    (retranslation.called /\ ~retranslation.ok) =>
        /\ pc \in {"return", "done"}
        /\ translated_content = merged_content
        /\ nSummarizeTranslated = 1
        /\ nCompare = 1
        /\ pc = "done" =>
              /\ result_text = merged_content
              /\ stats.translated_summary = first_summary
              /\ stats.comparison_result = first_comparison
              /\ stats.completeness_score = first_comparison.completeness_score

C3_Witness ==
    /\ pc = "done"
    /\ retranslation = Raised
    /\ merged_content # <<>>

HasRaised(outcomes) == \E j \in 1..Len(outcomes) : outcomes[j] = Raised

AllRaised(outcomes) ==
    \A j \in 1..Len(outcomes) : outcomes[j].called => outcomes[j] = Raised

\* C4 (as stated): for a chunk of any type, a failing model call makes
\* translate_chunk return the failure marker followed by the chunk's source;
\* and every chunk is translated before translate_content goes on.
C4_Original ==
    /\ \A i \in 1..Len(translated_chunks) :
          HasRaised(llm_log[i]) =>
              translated_chunks[i] = FailPrefix \o chunks[i].content
    /\ pc \notin {"start", "chunking", "translating"} =>
          Len(translated_chunks) = Len(chunks)

\* C4 (amended): for a chunk that is not of type code, a failing model call
\* makes translate_chunk return the failure marker followed by the chunk's
\* source; for a code chunk a failing comment-line call produces no marker,
\* the line is kept, and the block is returned as it was when every call
\* failed; in both cases every later chunk is still translated.
C4_Theorem ==
    /\ \A i \in 1..Len(translated_chunks) :
          /\ (chunks[i].chunk_type # "code" /\ HasRaised(llm_log[i])) =>
                translated_chunks[i] = FailPrefix \o chunks[i].content
          /\ (chunks[i].chunk_type = "code" /\ AllRaised(llm_log[i])) =>
                translated_chunks[i] = chunks[i].content
    /\ pc \notin {"start", "chunking", "translating"} =>
          Len(translated_chunks) = Len(chunks)

\* a failed code chunk followed by a later chunk that was translated
C4_Witness ==
    /\ pc = "done"
    /\ \E i \in 1..Len(chunks) :
          /\ chunks[i].chunk_type = "code"
          /\ HasRaised(llm_log[i])
          /\ i < Len(translated_chunks)

Occurs(p) == \E i \in 1..Len(phases) : phases[i] = p

\* phase b is entered only after phase a has been entered
Precedes(a, b) ==
    \A j \in 1..Len(phases) :
        phases[j] = b => \E i \in 1..(j - 1) : phases[i] = a

\* phase a is never entered once phase b has been
NotAfter(a, b) ==
    \A i, j \in 1..Len(phases) : (phases[i] = b /\ phases[j] = a) => j < i

\* C7 (as stated): the phases occur in the order CHUNKING, TRANSLATING,
\* SUMMARIZING_ORIGINAL, SUMMARIZING_TRANSLATED, COMPARING; the summary of
\* the original is generated only after chunking and chunk translation.
C7_Original ==
    /\ Precedes("CHUNKING", "TRANSLATING")
    /\ Precedes("CHUNKING", "SUMMARIZING_ORIGINAL")
    /\ NotAfter("TRANSLATING", "SUMMARIZING_ORIGINAL")
    /\ Precedes("SUMMARIZING_ORIGINAL", "SUMMARIZING_TRANSLATED")
    /\ Precedes("SUMMARIZING_TRANSLATED", "COMPARING")

\* C7 (amended): the phases occur in the order SUMMARIZING_ORIGINAL,
\* CHUNKING, TRANSLATING (all chunks), SUMMARIZING_TRANSLATED, COMPARING:
\* the summary of the original is generated first, before chunking.
C7_Theorem ==
    /\ Precedes("SUMMARIZING_ORIGINAL", "CHUNKING")
    /\ Precedes("CHUNKING", "TRANSLATING")
    /\ NotAfter("TRANSLATING", "SUMMARIZING_TRANSLATED")
    /\ Precedes("CHUNKING", "SUMMARIZING_TRANSLATED")
    /\ Occurs("SUMMARIZING_TRANSLATED") => Len(translated_chunks) = Len(chunks)
    /\ Precedes("SUMMARIZING_TRANSLATED", "COMPARING")
    /\ \A i, j \in 1..Len(phases) : phases[i] = phases[j] => i = j

C7_Witness ==
    /\ pc = "done"
    /\ Occurs("TRANSLATING")
    /\ Occurs("COMPARING")
    /\ Len(chunks) > 1

\* C8: whatever model calls fail in chunk translation, code-comment
\* translation and focused retranslation, translate_content reaches DONE
\* and returns a translation text and stats whose completeness_score is the
\* one of the last comparison performed and whose chunk_count is the number
\* of chunks the chunker produced.
C8_Theorem ==
    /\ <>(pc = "done")
    /\ [](pc = "done" =>
            /\ result_text = translated_content
            /\ stats.comparison_result = comparison_result
            /\ stats.completeness_score = comparison_result.completeness_score
            /\ stats.chunk_count = Len(chunks)
            /\ nCompare = 2 => comparison_result \in Comparisons)

\* a degraded run: a chunk failed, the retranslation replaced the text and
\* the second comparison scored differently from the first
C8_Witness ==
    /\ pc = "done"
    /\ nCompare = 2
    /\ \E i \in 1..Len(llm_log) : HasRaised(llm_log[i])
    /\ stats.completeness_score # first_comparison.completeness_score
    /\ stats.chunk_count > 0

\* the merged text cut at blank lines
Units(text) == IF text = <<>> THEN <<>> ELSE Split(text, <<NL, NL>>)

\* C9: the chunks are translated in chunker order, one translate_chunk call
\* per chunk on that chunk alone: translated_chunks is as long as the chunks
\* handled so far, its i-th entry is the result for the i-th chunk, and the
\* merged text keeps the entries in that order.
C9_Theorem ==
    /\ Len(translated_chunks) <= Len(chunks)
    /\ Len(llm_log) = Len(translated_chunks)
    /\ \A i \in 1..Len(translated_chunks) :
          /\ llm_log[i] \in ChunkOutcomes(chunks[i])
          /\ translated_chunks[i] = translate_chunk(chunks[i], llm_log[i])
    /\ pc \notin {"start", "chunking", "translating"} =>
          /\ Len(translated_chunks) = Len(chunks)
          /\ (\A i \in 1..Len(translated_chunks) : NonBlank(translated_chunks[i]))
                => /\ Len(Units(merged_content)) = Len(chunks)
                   /\ \A i \in 1..Len(chunks) :
                         Units(merged_content)[i] = Strip(translated_chunks[i])

\* two different chunks, the first failed, both present in the merged text
C9_Witness ==
    /\ pc = "done"
    /\ Len(chunks) > 1
    /\ chunks[1] # chunks[2]
    /\ HasRaised(llm_log[1])
    /\ Len(Units(merged_content)) = Len(chunks)

\* =================================================================
\* One call of _translate_code_block on an arbitrary code block
\* =================================================================
CodeChars == {"#", "/", SP, TAB, NL, "x"}
CodeBlocks == SeqsUpTo(CodeChars, MaxCodeLen)

CodeInit ==
    /\ code_pc = "ready"
    /\ code_content \in CodeBlocks
    /\ code_outcomes = <<>>
    /\ translated_lines = <<>>
    /\ code_sent = <<>>
    /\ code_result = <<>>

TranslateCodeBlock ==
    /\ code_pc = "ready"
    /\ \E o \in CodeOutcomes(code_content) :
          /\ code_outcomes' = o
          /\ translated_lines' = TranslatedLines(code_content, o)
          /\ code_result' = _translate_code_block(code_content, o)
    /\ code_sent' = SentLines(code_content)
    /\ code_pc' = "done"
    /\ UNCHANGED code_content

NextCode == TranslateCodeBlock /\ UNCHANGED <<tvars, mvars, kvars>>

InitCode == TInit /\ CodeInit /\ MIdle /\ KIdle

SpecCode == InitCode /\ [][NextCode]_vars

\* the trimmed line starts with '#' or '//'
TrimmedIsComment(line) ==
    LET t == Strip(line)
    IN  \/ (Len(t) >= 1 /\ t[1] = "#")
        \/ (Len(t) >= 2 /\ t[1] = "/" /\ t[2] = "/")

CommentCount(lines) ==
    Cardinality({j \in 1..Len(lines) : TrimmedIsComment(lines[j])})

\* C5: in a code block exactly the lines whose trimmed text starts with '#'
\* or '//' are sent to the model (trimmed); every other line is emitted
\* unchanged at the same position; a block without comment lines causes no
\* model call and is returned identical to its input, line count included.
C5_Theorem ==
    code_pc = "done" =>
        LET lines == Split(code_content, <<NL>>)
        IN  /\ Len(translated_lines) = Len(lines)
            /\ Len(code_sent) = CommentCount(lines)
            /\ \A k \in 1..Len(code_sent) : TrimmedIsComment(code_sent[k])
            /\ \A j \in 1..Len(lines) :
                  /\ code_outcomes[j].called <=> TrimmedIsComment(lines[j])
                  /\ ~TrimmedIsComment(lines[j]) => translated_lines[j] = lines[j]
            /\ CommentCount(lines) = 0 =>
                  /\ code_sent = <<>>
                  /\ code_result = code_content
                  /\ Len(Split(code_result, <<NL>>)) = Len(lines)

\* a block of several lines, none a comment, holding a lone '/' and blanks
C5_Witness ==
    /\ code_pc = "done"
    /\ code_sent = <<>>
    /\ Len(translated_lines) > 1
    /\ \E i \in 1..Len(code_content) : code_content[i] = "/"
    /\ code_result = code_content

\* the leading whitespace of a line, character for character
RECURSIVE LeadingWhitespace(_)
LeadingWhitespace(line) ==
    IF line # <<>> /\ Head(line) \in Whitespace
    THEN <<Head(line)>> \o LeadingWhitespace(Tail(line))
    ELSE <<>>

\* C11: for every comment line of a code block whose model call succeeds,
\* the emitted line is the line's own leading whitespace, kept character
\* for character (tabs as well as spaces), followed by the translated
\* comment; when the call fails the original line is emitted unchanged.
C11_Claim ==
    code_pc = "done" =>
        LET lines == Split(code_content, <<NL>>)
        IN  \A j \in 1..Len(lines) :
               TrimmedIsComment(lines[j]) =>
                  IF code_outcomes[j].ok
                  THEN translated_lines[j] =
                          LeadingWhitespace(lines[j])
                              \o Strip(code_outcomes[j].text)
                  ELSE translated_lines[j] = lines[j]

\* =================================================================
\* One call of _merge_translated_chunks on arbitrary translated chunks
\* =================================================================
MergeChars == {"a", NL}
MergeTexts ==
    SeqsUpTo(MergeChars, MaxTextLen)
        \cup {<<SP>>, <<SP, NL, TAB>>, <<SP, "a", SP>>, <<TAB, "a", NL>>}

MergeInit ==
    /\ merge_pc = "ready"
    /\ \E n \in 0..MaxMergeChunks : merge_chunks \in [1..n -> MergeTexts]
    /\ merge_result = <<>>

MergeChunks ==
    /\ merge_pc = "ready"
    /\ merge_result' = _merge_translated_chunks(merge_chunks)
    /\ merge_pc' = "done"
    /\ UNCHANGED merge_chunks

NextMerge == MergeChunks /\ UNCHANGED <<tvars, cvars, kvars>>

InitMerge == TInit /\ CIdle /\ MergeInit /\ KIdle

SpecMerge == InitMerge /\ [][NextMerge]_vars

IsBlank(c) == \A i \in 1..Len(c) : c[i] \in Whitespace

HasBlankLine(c) ==
    \E i \in 1..(Len(c) - 1) : c[i] = NL /\ c[i + 1] = NL

\* C6 (as stated): the merged text has exactly one blank-line-separated unit
\* per input chunk, empty and whitespace-only chunks included.
C6_Original ==
    merge_pc = "done" => Len(Units(merge_result)) = Len(merge_chunks)

\* C6 (amended): the merge drops the chunks that are empty or
\* whitespace-only and keeps the others, stripped, in their original order,
\* one blank-line-separated unit each (for chunks that hold no blank line
\* themselves): the number of units is the number of non-blank chunks.
C6_Theorem ==
    merge_pc = "done" =>
        LET IsKept(c) == ~IsBlank(c)
            kept == SelectSeq(merge_chunks, IsKept)
        IN  (\A k \in 1..Len(kept) : ~HasBlankLine(Strip(kept[k]))) =>
               /\ Len(Units(merge_result)) = Len(kept)
               /\ \A k \in 1..Len(kept) :
                     Units(merge_result)[k] = Strip(kept[k])

\* a whitespace-only chunk in front of a chunk with text
C6_Witness ==
    /\ merge_pc = "done"
    /\ Len(merge_chunks) > 1
    /\ IsBlank(merge_chunks[1]) /\ merge_chunks[1] # <<>>
    /\ ~IsBlank(merge_chunks[2])
    /\ Len(Units(merge_result)) = 1

\* =================================================================
\* One call of get_openai_config / get_qwen_config
\* =================================================================
KeyValues == {None, "", "sk-1", "sk-2", OpenaiPlaceholder, QwenPlaceholder}
EnvValues == {None, "", "sk-env"}
UrlValues == {None, "http://u"}

Sections ==
    {NoSection} \cup [present : {TRUE}, api_key : KeyValues \ {"sk-1"},
                      base_url : {None}]
                \cup [present : {TRUE}, api_key : {"sk-2"},
                      base_url : {"http://f"}]

ConfigInit ==
    /\ cfg_pc = "ready"
    /\ cfg_file \in [openai : Sections, qwen : Sections]
    /\ cfg_env \in [OPENAI_API_KEY : EnvValues, OPENAI_BASE_URL : {None},
                    DASHSCOPE_API_KEY : EnvValues]
    /\ cfg_call = [method |-> "", api_key |-> None, base_url |-> None]
    /\ cfg_result = [api_key |-> None, base_url |-> None]
    /\ env_read = {}

GetOpenaiConfig ==
    /\ cfg_pc = "ready"
    /\ \E k \in KeyValues \ {"sk-2"}, u \in UrlValues :
          LET r == get_openai_config(cfg_file, cfg_env, k, u)
          IN  /\ cfg_call' = [method |-> "openai", api_key |-> k, base_url |-> u]
              /\ cfg_result' = [api_key |-> r.api_key, base_url |-> r.base_url]
              /\ env_read' = r.read
    /\ cfg_pc' = "done"
    /\ UNCHANGED <<cfg_file, cfg_env>>

GetQwenConfig ==
    /\ cfg_pc = "ready"
    /\ \E k \in KeyValues \ {"sk-2"} :
          LET r == get_qwen_config(cfg_file, cfg_env, k)
          IN  /\ cfg_call' = [method |-> "qwen", api_key |-> k, base_url |-> None]
              /\ cfg_result' = [api_key |-> r.api_key, base_url |-> None]
              /\ env_read' = r.read
    /\ cfg_pc' = "done"
    /\ UNCHANGED <<cfg_file, cfg_env>>

NextConfig ==
    (GetOpenaiConfig \/ GetQwenConfig) /\ UNCHANGED <<tvars, cvars, mvars>>

InitConfig == TInit /\ CIdle /\ MIdle /\ ConfigInit

SpecConfig == InitConfig /\ [][NextConfig]_vars

\* C10: the API key is resolved argument > config file > environment: a
\* non-empty argument is returned whatever the file and the environment
\* hold; a file key equal to the sample placeholder counts as absent; the
\* environment variable is read only when neither yields a key.
C10_Theorem ==
    cfg_pc = "done" =>
        LET openai == cfg_call.method = "openai"
            sec == IF openai THEN cfg_file.openai ELSE cfg_file.qwen
            placeholder == IF openai THEN "your_openai_api_key_here"
                           ELSE "your_dashscope_api_key_here"
            envname == IF openai THEN "OPENAI_API_KEY" ELSE "DASHSCOPE_API_KEY"
            argYields == cfg_call.api_key \notin {None, ""}
            fileYields == /\ sec.present
                          /\ sec.api_key \notin {None, "", placeholder}
        IN  /\ argYields => cfg_result.api_key = cfg_call.api_key
            /\ (~argYields /\ fileYields) => cfg_result.api_key = sec.api_key
            /\ (~argYields /\ ~fileYields) => cfg_result.api_key = cfg_env[envname]
            /\ (envname \in env_read) <=> (~argYields /\ ~fileYields)

\* argument, file and environment all hold a different key
C10_Witness ==
    /\ cfg_pc = "done"
    /\ cfg_call.method = "openai"
    /\ cfg_call.api_key = "sk-1"
    /\ cfg_file.openai.present /\ cfg_file.openai.api_key = "sk-2"
    /\ cfg_env.OPENAI_API_KEY = "sk-env"
    /\ cfg_result.api_key = "sk-1"

====
